---- MODULE Spec2Model ----
(***************************************************************************)
(* Evangelist: the "Edit Configuration" page and its workflow editor.      *)
(*                                                                         *)
(* The model follows frontend/src/app/suites/[id]/edit/page.tsx (load and  *)
(* save of the suite configuration), components/workflow-configuration.tsx *)
(* (the draft WorkflowConfig, the per-step test state and the gating of    *)
(* the four steps) and components/invocation-config.tsx (the projection of *)
(* an InvocationInput to the flat editing shape and back).                 *)
(*                                                                         *)
(* JavaScript objects are functions over string keys, so that an optional  *)
(* key is a key that is or is not in the DOMAIN.  null is the record       *)
(* Null, a null string is NullStr, undefined is Undefined.                 *)
(***************************************************************************)
EXTENDS Integers, Sequences, FiniteSets, TLC

VARIABLES
    pagePc,             \* position of fetchSuiteData / the page: getSuite, getConfig, ready, left
    isLoading,          \* page.tsx: isLoading
    suite,              \* page.tsx: suite (Null until getSuite resolves)
    suiteConfig,        \* page.tsx: suiteConfig
    isSaving,           \* page.tsx: isSaving
    saveRequests,       \* the save requests sent so far, in order, each with its outcome
    pageToast,          \* the notification page.tsx showed last
    mounted,            \* WorkflowConfiguration is rendered (not loading, suite present)
    config,             \* workflow-configuration.tsx: config (the draft)
    testResults,        \* workflow-configuration.tsx: testResults
    testLoading,        \* workflow-configuration.tsx: testLoading
    testErrors,         \* workflow-configuration.tsx: testErrors
    currentTestResult,  \* workflow-configuration.tsx: currentTestResult
    testedSteps,        \* workflow-configuration.tsx: testedSteps
    testToast,          \* the notification workflow-configuration.tsx showed last
    inflight,           \* the test requests awaiting their answer
    issued,             \* number of test requests issued in this session
    run,                \* the latest testAllSteps call: its status and position
    lastOutcome,        \* history: per step, how its most recently completed test ended
    lastError,          \* history: the error of the test request that was rejected last
    succeeded,          \* history: the steps whose remote test call has resolved
    configFetch,        \* history: how the configuration fetch of this session ended
    edits,              \* history: number of field edits made in this session
    rt,                 \* the projection round trip: input, projected and rebuilt value
    remote,             \* the backend: the versions stored for the suite, oldest first
    op,                 \* history: the editing operation applied last, with its arguments
    uncaught,           \* history: the failed remote calls whose operation rejected or showed no error
    activeSection,      \* invocation-config.tsx: activeSection
    userHasSelectedSection  \* invocation-config.tsx: userHasSelectedSection

vars == <<pagePc, isLoading, suite, suiteConfig, isSaving, saveRequests, pageToast,
          mounted, config, testResults, testLoading, testErrors, currentTestResult,
          testedSteps, testToast, inflight, issued, run, lastOutcome, lastError,
          succeeded, configFetch, edits, rt, activeSection, userHasSelectedSection, remote, op, uncaught>>

pageVars == <<pagePc, isLoading, suite, suiteConfig, isSaving, saveRequests, pageToast,
              mounted, configFetch>>
testVars == <<testResults, testLoading, testErrors, currentTestResult, testedSteps,
              testToast, inflight, issued, run, lastOutcome, lastError, succeeded>>

(***************************************************************************)
(* Bounds of the model.                                                    *)
(***************************************************************************)
MaxIssued == 2      \* no Test click or testAllSteps call is followed once this many
                    \* test requests were issued in the session
MaxEdits == 1       \* field edits in one session
MaxSaves == 2       \* save attempts in one session
MaxLen == 2         \* length of a key/value list of an InvocationInput
MaxVersions == 3    \* the page is not opened again once the backend holds this version
MaxOps == 3         \* operations applied in one run of an editing widget

(***************************************************************************)
(* JavaScript values.                                                      *)
(***************************************************************************)
Empty == [k \in {} |-> TRUE]        \* the object {}
Null == [null |-> TRUE]             \* null, where an object is expected
NullStr == "<null>"                 \* null, where a string is expected
Undefined == "<undefined>"          \* undefined, where a string is expected

Has(obj, key) == key \in DOMAIN obj

\* a string in a condition or on the left of ||
Truthy(v) == v \notin {Undefined, NullStr, ""}

Or(a, b) == IF Truthy(a) THEN a ELSE b

\* the steps array of testAllSteps: the pipeline order
StepsPostprocessingSecond ==
    <<"preprocessing", "postprocessing", "invocation", "evaluation">>

Steps == <<"preprocessing", "invocation", "postprocessing", "evaluation">>

StepNames == {Steps[i] : i \in DOMAIN Steps}

StepIndex(step) == CHOOSE i \in DOMAIN Steps : Steps[i] = step

(***************************************************************************)
(* lib/types: KeyValuePair, InvocationInput, WorkflowConfig.               *)
(***************************************************************************)
KV1 == [key |-> "text", value |-> "@[review_text]", enabled |-> TRUE]
KV2 == [key |-> "lang", value |-> "en", enabled |-> FALSE]

KeyValuePairs == {KV1, KV2}

\* defaultKeyValuePair()
defaultKeyValuePair == [key |-> "", value |-> "", enabled |-> TRUE]

\* the KeyValuePair[] values of at most MaxLen entries
KVLists == UNION {[1..n -> KeyValuePairs] : n \in 0..MaxLen}

\* InputTypeConfig.params: absent, or {data: list}
ParamsOptions == {Empty} \cup {[params |-> [data |-> l]] : l \in KVLists}

\* InputTypeConfig.body: absent, {}, {json}, {form}, or both keys (one entry each)
BodyOptions ==
    {Empty, [body |-> Empty]}
        \cup {[body |-> [json |-> l]] : l \in KVLists}
        \cup {[body |-> [form |-> l]] : l \in KVLists}
        \cup {[body |-> [json |-> <<k1>>, form |-> <<k2>>]] : k1, k2 \in KeyValuePairs}

InputTypes == {p @@ b : p \in ParamsOptions, b \in BodyOptions}

Urls == {"", "https://api.example.com/classify"}
Methods == {"POST", "GET"}

\* InvocationInput; headers is always present, as in the wire shape
InvocationInputs ==
    [url : Urls, method : Methods, headers : {<<>>, <<KV1>>}, input_type : InputTypes]

\* the body of an InvocationInput is absent, {json: [...]} or {form: [...]}, never both
OneBody(c) ==
    \/ ~Has(c.input_type, "body")
    \/ DOMAIN c.input_type.body = {"json"}
    \/ DOMAIN c.input_type.body = {"form"}

(***************************************************************************)
(* invocation-config.tsx: the projection to the flat editing shape and its *)
(* inverse.  An array is truthy also when it is empty; a missing key reads *)
(* as undefined, which is falsy.                                           *)
(***************************************************************************)
convertToLegacyFormat(c) ==
    LET it == c.input_type
        params == IF Has(it, "params") THEN it.params.data ELSE <<>>
        hasJson == Has(it, "body") /\ Has(it.body, "json")
        hasForm == Has(it, "body") /\ Has(it.body, "form")
    IN  [url |-> c.url,
         method |-> c.method,
         params |-> params,
         bodyType |-> IF hasJson THEN "json" ELSE IF hasForm THEN "formData" ELSE "none",
         body |-> [json |-> IF hasJson THEN it.body.json ELSE <<>>,
                   formData |-> IF ~hasJson /\ hasForm THEN it.body.form ELSE <<>>]]

convertFromLegacyFormatWithoutHeaders(legacy, original) ==
    LET params == IF Len(legacy.params) > 0
                  THEN [params |-> [data |-> legacy.params]]
                  ELSE Empty
        body == IF legacy.bodyType = "json" THEN [body |-> [json |-> legacy.body.json]]
                ELSE IF legacy.bodyType = "formData"
                     THEN [body |-> [form |-> legacy.body.formData]]
                     ELSE Empty
    IN  [url |-> legacy.url,
         method |-> legacy.method,
         headers |-> <<>>,
         input_type |-> params @@ body]

convertFromLegacyFormatAlwaysParams(legacy, original) ==
    LET body == IF legacy.bodyType = "json" THEN [body |-> [json |-> legacy.body.json]]
                ELSE IF legacy.bodyType = "formData"
                     THEN [body |-> [form |-> legacy.body.formData]]
                     ELSE Empty
    IN  [url |-> legacy.url,
         method |-> legacy.method,
         headers |-> original.headers,
         input_type |-> [params |-> [data |-> legacy.params]] @@ body]

convertFromLegacyFormatBothLists(legacy, original) ==
    LET params == IF Len(legacy.params) > 0
                  THEN [params |-> [data |-> legacy.params]]
                  ELSE Empty
        body == IF legacy.bodyType = "none"
                THEN Empty
                ELSE [body |-> [json |-> legacy.body.json, form |-> legacy.body.formData]]
    IN  [url |-> legacy.url,
         method |-> legacy.method,
         headers |-> original.headers,
         input_type |-> params @@ body]

convertFromLegacyFormat(legacy, original) ==
    LET params == IF Len(legacy.params) > 0
                  THEN [params |-> [data |-> legacy.params]]
                  ELSE Empty
        body == IF legacy.bodyType = "json" THEN [body |-> [json |-> legacy.body.json]]
                ELSE IF legacy.bodyType = "formData"
                     THEN [body |-> [form |-> legacy.body.formData]]
                     ELSE Empty
    IN  [url |-> legacy.url,
         method |-> legacy.method,
         headers |-> original.headers,
         input_type |-> params @@ body]

\* getInitialActiveSection(): body when body.json or body.form is there, else params
getInitialActiveSection(c) ==
    LET it == c.input_type IN
    IF Has(it, "body") /\ Has(it.body, "json") THEN "body"
    ELSE IF Has(it, "body") /\ Has(it.body, "form") THEN "body"
    ELSE "params"

(***************************************************************************)
(* The round trip as a small machine of its own: an InvocationInput is     *)
(* chosen, projected, and rebuilt.                                         *)
(***************************************************************************)
RtIdle == [pc |-> "idle"]

Project ==
    /\ rt.pc = "input"
    /\ rt' = [pc |-> "projected", in |-> rt.in, legacy |-> convertToLegacyFormat(rt.in)]
    /\ UNCHANGED <<pageVars, config, testVars, edits, remote, op, uncaught,
                   activeSection, userHasSelectedSection>>

Unproject ==
    /\ rt.pc = "projected"
    /\ rt' = [pc |-> "rebuilt", in |-> rt.in, legacy |-> rt.legacy,
              out |-> convertFromLegacyFormat(rt.legacy, rt.in)]
    /\ UNCHANGED <<pageVars, config, testVars, edits, remote, op, uncaught,
                   activeSection, userHasSelectedSection>>

(***************************************************************************)
(* lib/api.ts: the errors axios raises and the response interceptor that   *)
(* turns each of them into an ApiError {detail, status_code}.              *)
(***************************************************************************)
ErrDetail ==
    [message |-> "Request failed with status code 500",
     response |-> [status |-> 500, data |-> [detail |-> "Connection refused"]]]
ErrNotFound ==
    [message |-> "Request failed with status code 404",
     response |-> [status |-> 404, data |-> [detail |-> "Suite configuration not found"]]]
ErrNetwork == [message |-> "Network Error"]     \* no response at all

RemoteErrors == {ErrDetail, ErrNotFound, ErrNetwork}

\* error.response?.data?.detail
ResponseDetail(error) ==
    IF Has(error, "response") /\ Has(error.response, "data")
       /\ Has(error.response.data, "detail")
    THEN error.response.data.detail
    ELSE Undefined

\* error.message
Message(error) == IF Has(error, "message") THEN error.message ELSE Undefined

\* the status of the response the error carries, 0 when there is none
HttpStatus(error) ==
    IF Has(error, "response") /\ Has(error.response, "status")
    THEN error.response.status
    ELSE 0

\* error.response?.status || 500
StatusOr500(error) ==
    IF Has(error, "response") /\ Has(error.response, "status") /\ error.response.status # 0
    THEN error.response.status
    ELSE 500

responseInterceptor(error) ==
    [detail |-> Or(ResponseDetail(error), Message(error)),
     status_code |-> StatusOr500(error)]

\* apiClient.testSuiteStep: one request through the client; a failure reaches the
\* caller as the error payload {detail, status_code} the interceptor builds
testSuiteStepRejection(error) == responseInterceptor(error)

\* the answer of the remote test endpoint to the i-th request: opaque JSON, a value
\* of its own for every request
Payload(i) == [success |-> TRUE, request |-> i]

\* what a failed remote call leaves behind: an entry when the promise of the
\* operation that issued it is rejected, and one when the operation showed no error
\* notification
Uncaught(operation, promise, toast, apiError) ==
    (IF promise = "rejected"
     THEN {[operation |-> operation, how |-> "rejected",
            status_code |-> apiError.status_code]}
     ELSE {})
    \cup
    (IF toast.level # "error"
     THEN {[operation |-> operation, how |-> "silent",
            status_code |-> apiError.status_code]}
     ELSE {})

\* the errors a test request may end with
TestErrors == {ErrDetail, ErrNetwork}

(***************************************************************************)
(* Suites and stored configurations the backend may return.                *)
(***************************************************************************)
SuiteFull ==
    [id |-> "S1", name |-> "Sentiment", description |-> "Review sentiment",
     dataset_id |-> "D1"]
\* a suite whose id and name are empty strings and that has no description
SuiteBare == [id |-> "", name |-> "", dataset_id |-> "D1"]

Suites == {SuiteFull, SuiteBare}

Field(obj, key) == IF Has(obj, key) THEN obj[key] ELSE Undefined

DefaultUrl == "http://localhost:8000/api"

SavedConfig ==
    [workflow |->
        [name |-> "Sentiment", description |-> "Stored workflow", version |-> 2,
         steps |->
            [preprocessing |->
                [description |-> "Preprocess data", script |-> "preprocessing-script.py",
                 input |-> [input_columns |-> <<"review_text">>,
                            groundtruth_column |-> "category"]],
             invocation |->
                [description |-> "Request invocation",
                 script |-> "request-invocation-script.py",
                 input |-> [url |-> "https://api.example.com/classify", method |-> "GET",
                            headers |-> <<KV1>>,
                            input_type |-> [body |-> [json |-> <<KV1>>]]]],
             postprocessing |->
                [description |-> "Postprocess data", script |-> "postprocessing-script.py",
                 input |-> [field |-> "result[0].text"]],
             evaluation |->
                [description |-> "Evaluation", script |-> "evaluation-script.py",
                 input |-> [metrics |-> <<"accuracy", "similarity">>]]]]]

\* the columns of dataset D1, as its preview lists them for the column selectors
DatasetColumns == {"review_text", "title", "category"}

\* the answers of GET /suites/{id}/config
ConfigResponses ==
    {[suite_id |-> "S1", workflow_config |-> Null],
     [suite_id |-> "S1", workflow_config |-> SavedConfig]}

(***************************************************************************)
(* The backend's store of the suite's configuration, as its interface      *)
(* describes it: every accepted save becomes a new version, one above the  *)
(* latest, and the latest version is the one a load returns.               *)
(***************************************************************************)
\* the store behind an answer of GET /suites/{id}/config
StoreOf(c) == IF c.workflow_config = Null THEN <<>> ELSE <<c.workflow_config>>

RemoteStores == {StoreOf(c) : c \in ConfigResponses}

CurrentVersion(store) ==
    IF store = <<>> THEN 0 ELSE store[Len(store)].workflow.version

NextVersion(store) == CurrentVersion(store) + 1

\* the store after it accepted the body {workflow_config} of a save request
RemoteSave(store, body) ==
    Append(store, [body.workflow_config EXCEPT !.workflow.version = NextVersion(store)])

\* what GET /suites/{id}/config answers with
RemoteAnswers(store) ==
    IF store = <<>>
    THEN {[suite_id |-> "S1", workflow_config |-> Null]}
    ELSE {[suite_id |-> "S1", workflow_config |-> store[Len(store)]]}

\* the errors GET /suites/{id}/config may end with: 404 only when nothing is stored
RemoteRejections(store) ==
    IF store = <<>> THEN RemoteErrors ELSE RemoteErrors \ {ErrNotFound}

(***************************************************************************)
(* workflow-configuration.tsx: the initial draft.                          *)
(***************************************************************************)
DefaultConfigVersionOne(s) ==
    [workflow |->
        [name |-> Or(Field(s, "name"), "New Workflow"),
         description |-> Or(Field(s, "description"), "Evaluation workflow"),
         version |-> 1,
         steps |-> SavedConfig.workflow.steps]]

\* the default configuration built when there is no initialConfig
DefaultConfig(s) ==
    [workflow |->
        [name |-> Or(Field(s, "name"), "New Workflow"),
         description |-> Or(Field(s, "description"), "Evaluation workflow"),
         version |-> 0,
         steps |->
            [preprocessing |->
                [description |-> "Preprocess data", script |-> "preprocessing-script.py",
                 input |-> [input_columns |-> <<>>, groundtruth_column |-> ""]],
             invocation |->
                [description |-> "Request invocation",
                 script |-> "request-invocation-script.py",
                 input |-> [url |-> DefaultUrl, method |-> "POST", headers |-> <<>>,
                            input_type |-> Empty]],
             postprocessing |->
                [description |-> "Postprocess data", script |-> "postprocessing-script.py",
                 input |-> [field |-> "message"]],
             evaluation |->
                [description |-> "Evaluation", script |-> "evaluation-script.py",
                 input |-> [metrics |-> <<"similarity">>]]]]]

\* page.tsx: initialConfig={suiteConfig?.workflow_config || null}
InitialConfigProp(sc) ==
    IF sc # Null /\ Has(sc, "workflow_config") THEN sc.workflow_config ELSE Null

\* the useState initializer of config
InitialDraft(initialConfig, s) ==
    IF initialConfig # Null THEN initialConfig ELSE DefaultConfig(s)

(***************************************************************************)
(* The state of a freshly mounted editor (the useState initial values).    *)
(***************************************************************************)
NoToast == [level |-> "none"]
NoRun == [status |-> "none"]
NoOp == [name |-> "none"]

InitialTestedStepsRestored == succeeded

\* useState<Set<string>>(new Set())
InitialTestedSteps == {}

FreshTestState ==
    /\ succeeded = {}
    /\ testResults = Empty
    /\ testLoading = Empty
    /\ testErrors = Empty
    /\ currentTestResult = Null
    /\ testedSteps = InitialTestedSteps
    /\ testToast = NoToast
    /\ inflight = {}
    /\ issued = 0
    /\ run = NoRun
    /\ lastOutcome = Empty
    /\ lastError = Null

InitEditor ==
    /\ pagePc = "getSuite"
    /\ isLoading = TRUE
    /\ suite = Null
    /\ suiteConfig = Null
    /\ isSaving = FALSE
    /\ saveRequests = <<>>
    /\ pageToast = NoToast
    /\ mounted = FALSE
    /\ config = Null
    /\ FreshTestState
    /\ configFetch = [status |-> "pending"]
    /\ edits = 0
    /\ op = NoOp
    /\ uncaught = {}
    /\ activeSection = "params"
    /\ userHasSelectedSection = FALSE

Init == InitEditor /\ rt = RtIdle /\ remote \in RemoteStores

(***************************************************************************)
(* page.tsx: fetchSuiteData.  The editor is rendered, and its draft        *)
(* initialised, by the render that follows setIsLoading(false) when a      *)
(* suite is present.                                                       *)
(***************************************************************************)
IsNotFoundReadingStatus(apiError) == Has(apiError, "status") /\ apiError.status = 404

IsNotFoundOrServerError(apiError) == apiError.status_code \in {404, 500}

\* configError.status_code === 404
IsNotFound(apiError) == apiError.status_code = 404

LoadFailedToast == [level |-> "error", text |-> "Failed to load suite data"]

\* the promise of fetchSuiteData: the outer catch handles the rejection of getSuite
\* and the configError the inner catch throws again, and throws nothing itself
fetchSuiteDataPromise(apiError) == "fulfilled"

GetSuiteResolves ==
    /\ pagePc = "getSuite"
    /\ \E s \in Suites : suite' = s
    /\ pagePc' = "getConfig"
    /\ UNCHANGED <<isLoading, suiteConfig, isSaving, saveRequests, pageToast, mounted,
                   config, testVars, configFetch, edits, rt, activeSection, userHasSelectedSection, remote, op, uncaught>>

GetSuiteRejects ==
    /\ pagePc = "getSuite"
    /\ pageToast' = LoadFailedToast
    /\ isLoading' = FALSE
    /\ pagePc' = "ready"
    /\ \E e \in RemoteErrors :
           LET apiError == responseInterceptor(e) IN
           uncaught' = uncaught \cup Uncaught("fetchSuiteData",
                                              fetchSuiteDataPromise(apiError),
                                              pageToast', apiError)
    /\ UNCHANGED <<suite, suiteConfig, isSaving, saveRequests, mounted, config,
                   testVars, configFetch, edits, rt, activeSection, userHasSelectedSection, remote, op>>

GetSuiteConfigResolves ==
    /\ pagePc = "getConfig"
    /\ \E c \in RemoteAnswers(remote) :
           /\ suiteConfig' = c
           /\ config' = InitialDraft(InitialConfigProp(c), suite)
           /\ configFetch' = [status |-> "resolved", response |-> c]
    /\ isLoading' = FALSE
    /\ pagePc' = "ready"
    /\ mounted' = TRUE
    /\ activeSection' = getInitialActiveSection(config'.workflow.steps.invocation.input)
    /\ UNCHANGED <<suite, isSaving, saveRequests, pageToast, testVars, edits, rt,
                   userHasSelectedSection, remote, op, uncaught>>

GetSuiteConfigRejects ==
    /\ pagePc = "getConfig"
    /\ \E e \in RemoteRejections(remote) :
           LET configError == responseInterceptor(e) IN
           /\ suiteConfig' = IF IsNotFound(configError) THEN Null ELSE suiteConfig
           /\ pageToast' = IF IsNotFound(configError) THEN pageToast ELSE LoadFailedToast
           /\ configFetch' = [status |-> "rejected", notFound |-> HttpStatus(e) = 404]
           /\ uncaught' = uncaught \cup Uncaught("fetchSuiteData",
                                                fetchSuiteDataPromise(configError),
                                                pageToast', configError)
    /\ config' = InitialDraft(InitialConfigProp(suiteConfig'), suite)
    /\ isLoading' = FALSE
    /\ pagePc' = "ready"
    /\ mounted' = TRUE
    /\ activeSection' = getInitialActiveSection(config'.workflow.steps.invocation.input)
    /\ UNCHANGED <<suite, isSaving, saveRequests, testVars, edits, rt,
                   userHasSelectedSection, remote, op>>

(***************************************************************************)
(* workflow-configuration.tsx: gating of the step panels.  The panel of a  *)
(* step other than preprocessing is blurred and takes no pointer events    *)
(* until the step before it is in testedSteps; its Test button is part of  *)
(* the panel.                                                              *)
(***************************************************************************)
IsLoadingStep(step) == Has(testLoading, step) /\ testLoading[step]

UnlockedAlways(step) == TRUE

\* the panel's controls take pointer events
Unlocked(step) ==
    IF step = "preprocessing" THEN TRUE ELSE Steps[StepIndex(step) - 1] \in testedSteps

NoSuiteIdOnlyNull == suite = Null

\* !suite?.id
NoSuiteId == suite = Null \/ ~Truthy(Field(suite, "id"))

NoSuiteToast == [level |-> "error", text |-> "No suite selected for testing"]

(***************************************************************************)
(* handleTestStep up to its await: lines 464-468.                          *)
(***************************************************************************)
StartedLoading(tl, step) == (step :> TRUE) @@ tl
StartedErrors(te, step) == (step :> NullStr) @@ te

IssuedWithRetry(reqs, id, step, awaited) ==
    reqs \cup {[id |-> id, step |-> step, awaited |-> awaited],
               [id |-> id + MaxIssued + Len(Steps), step |-> step, awaited |-> awaited]}

\* apiClient.testSuiteStep(suite.id, step): one more request in flight
Issued(reqs, id, step, awaited) ==
    reqs \cup {[id |-> id, step |-> step, awaited |-> awaited]}

\* the Test button of a step's panel: onClick={() => handleTestStep(step)}
HandleTestStepClick(step) ==
    /\ mounted /\ pagePc = "ready"
    /\ Unlocked(step)
    /\ ~IsLoadingStep(step)
    /\ IF NoSuiteId
       THEN /\ testToast' = NoSuiteToast
            /\ UNCHANGED <<testResults, testLoading, testErrors, currentTestResult,
                           testedSteps, inflight, issued, run, lastOutcome, lastError,
                           succeeded>>
       ELSE /\ issued < MaxIssued
            /\ testLoading' = StartedLoading(testLoading, step)
            /\ testErrors' = StartedErrors(testErrors, step)
            /\ inflight' = Issued(inflight, issued + 1, step, FALSE)
            /\ issued' = issued + 1
            /\ UNCHANGED <<testResults, currentTestResult, testedSteps, testToast, run,
                           lastOutcome, lastError, succeeded>>
    /\ UNCHANGED <<pageVars, config, edits, rt, activeSection, userHasSelectedSection, remote, op, uncaught>>

\* testAllSteps, called through the component's ref, up to its first await; the
\* model follows one such call at a time
TestAllStepsCall ==
    /\ mounted /\ pagePc = "ready"
    /\ IF NoSuiteId
       THEN /\ testToast' = NoSuiteToast
            /\ UNCHANGED <<testResults, testLoading, testErrors, currentTestResult,
                           testedSteps, inflight, issued, run, lastOutcome, lastError,
                           succeeded>>
       ELSE /\ issued < MaxIssued
            /\ run.status # "running"
            /\ run' = [status |-> "running", idx |-> 1, failed |-> {}]
            /\ testLoading' = StartedLoading(testLoading, Steps[1])
            /\ testErrors' = StartedErrors(testErrors, Steps[1])
            /\ inflight' = Issued(inflight, issued + 1, Steps[1], TRUE)
            /\ issued' = issued + 1
            /\ testToast' = [level |-> "info", text |-> "Testing step", step |-> Steps[1]]
            /\ UNCHANGED <<testResults, currentTestResult, testedSteps, lastOutcome,
                           lastError, succeeded>>
    /\ UNCHANGED <<pageVars, config, edits, rt, activeSection, userHasSelectedSection, remote, op, uncaught>>

(***************************************************************************)
(* handleTestStep after its await: the try body, the catch and the finally *)
(* (lines 469-495), and then the continuation of testAllSteps when it is   *)
(* the caller (lines 514-524).                                             *)
(***************************************************************************)
\* error.response?.data?.detail || error.message || 'Test failed'
errorMessage(error) == Or(Or(ResponseDetail(error), Message(error)), "Test failed")

TestedForgettingStep(ts, step) == ts \ {step}

\* testedSteps after the catch block, which does not touch it
TestedAfterFailure(ts, step) == ts

TestedUnchanged(ts, step) == ts

\* setTestedSteps(prev => new Set([...prev, step]))
TestedAfterSuccess(ts, step) == ts \cup {step}

handleTestStepPromiseRethrows(o) == IF o.ok THEN "fulfilled" ELSE "rejected"

\* the promise handleTestStep returns: the catch block handles every rejection of
\* the remote call and throws nothing, so the promise is fulfilled either way
handleTestStepPromise(o) == "fulfilled"

\* the promise of testAllSteps after the step it awaits: try { await
\* handleTestStep(step) } catch (error) { throw error }
testAllStepsPromise(o) == handleTestStepPromise(o)

StoredResultUnlessNewer(results, step, data) ==
    IF Has(results, step) /\ results[step].request > data.request
    THEN results
    ELSE (step :> data) @@ results

\* setTestResults(prev => ({ ...prev, [step]: result }))
StoredResult(results, step, data) == (step :> data) @@ results

StillLoading(tl, step) == tl

\* finally: setTestLoading(prev => ({ ...prev, [step]: false }))
FinishedLoading(tl, step) == (step :> FALSE) @@ tl

TestSettles(r, o) ==
    LET step == r.step
        msg == errorMessage(testSuiteStepRejection(o.error))
        results1 == IF o.ok THEN StoredResult(testResults, step, o.data) ELSE testResults
        errors1 == IF o.ok THEN testErrors ELSE (step :> msg) @@ testErrors
        loading1 == FinishedLoading(testLoading, step)
        toast1 ==
            IF o.ok
            THEN [level |-> "success", text |-> "test completed successfully",
                  step |-> step]
            ELSE [level |-> "error", text |-> "test failed", step |-> step,
                  detail |-> msg]
        thrown == r.awaited /\ testAllStepsPromise(o) = "rejected"
        more == r.awaited /\ ~thrown /\ run.idx < Len(Steps)
        next == Steps[run.idx + 1]
        failed1 == IF o.ok THEN run.failed ELSE run.failed \cup {run.idx}
        apiError == testSuiteStepRejection(o.error)
    IN
    /\ uncaught' =
           IF o.ok THEN uncaught
           ELSE uncaught
                    \cup Uncaught("handleTestStep", handleTestStepPromise(o), toast1,
                                  apiError)
                    \cup (IF r.awaited
                          THEN Uncaught("testAllSteps", testAllStepsPromise(o), toast1,
                                        apiError)
                          ELSE {})
    /\ testResults' = results1
    /\ currentTestResult' =
           IF o.ok
           THEN [stepType |-> step, result |-> o.data, error |-> NullStr]
           ELSE [stepType |-> step, result |-> Null, error |-> msg]
    /\ testedSteps' = IF o.ok THEN TestedAfterSuccess(testedSteps, step)
                              ELSE TestedAfterFailure(testedSteps, step)
    /\ lastOutcome' = (step :> (IF o.ok THEN "success" ELSE "failure")) @@ lastOutcome
    /\ lastError' = IF o.ok THEN lastError ELSE o.error
    /\ succeeded' = IF o.ok THEN succeeded \cup {step} ELSE succeeded
    /\ testErrors' = IF more THEN StartedErrors(errors1, next) ELSE errors1
    /\ testLoading' = IF more THEN StartedLoading(loading1, next) ELSE loading1
    /\ inflight' = IF more THEN Issued(inflight \ {r}, issued + 1, next, TRUE)
                           ELSE inflight \ {r}
    /\ issued' = IF more THEN issued + 1 ELSE issued
    /\ run' =
           IF ~r.awaited THEN run
           ELSE IF thrown THEN [run EXCEPT !.status = "rejected", !.failed = failed1]
           ELSE IF more THEN [run EXCEPT !.idx = @ + 1, !.failed = failed1]
           ELSE [run EXCEPT !.status = "fulfilled", !.failed = failed1]
    /\ testToast' =
           IF ~r.awaited \/ thrown THEN toast1
           ELSE IF more THEN [level |-> "info", text |-> "Testing step", step |-> next]
           ELSE [level |-> "success",
                 text |-> "All workflow tests completed successfully"]

\* the remote call of a test request resolves
TestRequestResolves ==
    /\ mounted /\ pagePc = "ready"
    /\ \E r \in inflight : TestSettles(r, [ok |-> TRUE, data |-> Payload(r.id)])
    /\ UNCHANGED <<pageVars, config, edits, rt, activeSection, userHasSelectedSection, remote, op>>

TestRequestRejectsResettingDraft ==
    /\ mounted /\ pagePc = "ready"
    /\ \E r \in inflight : \E e \in TestErrors :
           TestSettles(r, [ok |-> FALSE, error |-> e])
    /\ config' = InitialDraft(InitialConfigProp(suiteConfig), suite)
    /\ UNCHANGED <<pageVars, edits, rt, activeSection, userHasSelectedSection, remote, op>>

\* the remote call of a test request rejects
TestRequestRejects ==
    /\ mounted /\ pagePc = "ready"
    /\ \E r \in inflight : \E e \in TestErrors :
           TestSettles(r, [ok |-> FALSE, error |-> e])
    /\ UNCHANGED <<pageVars, config, edits, rt, activeSection, userHasSelectedSection, remote, op>>

(***************************************************************************)
(* workflow-configuration.tsx: updateStepInput (lines 403-451) and the     *)
(* editor of the postprocessing panel that calls it.                       *)
(***************************************************************************)
updateStepInputReplacingInput(prev, stepName, inputField, value) ==
    LET currentStep == prev.workflow.steps[stepName]
        newStep == [description |-> Or(Field(currentStep, "description"), ""),
                    script |-> Or(Field(currentStep, "script"), ""),
                    input |-> (inputField :> value)]
    IN  [prev EXCEPT !.workflow.steps[stepName] = newStep]

updateStepInput(prev, stepName, inputField, value) ==
    LET currentStep == prev.workflow.steps[stepName]
        currentInput == IF Has(currentStep, "input") THEN currentStep.input ELSE Empty
        newStep == [description |-> Or(Field(currentStep, "description"), ""),
                    script |-> Or(Field(currentStep, "script"), ""),
                    input |-> (inputField :> value) @@ currentInput]
    IN  [prev EXCEPT !.workflow.steps[stepName] = newStep]

\* the field edits the model follows: (step, field, value)
FieldEdits ==
    {<<"postprocessing", "field", "result[0].text">>,
     <<"postprocessing", "field", "message">>}

EditFieldWhileIdle(e) ==
    /\ mounted /\ pagePc = "ready"
    /\ inflight = {}
    /\ edits < MaxEdits
    /\ Unlocked(e[1])
    /\ config' = updateStepInput(config, e[1], e[2], e[3])
    /\ edits' = edits + 1
    /\ op' = [name |-> "updateStepInput", step |-> e[1], field |-> e[2], value |-> e[3]]
    /\ UNCHANGED <<pageVars, testVars, rt, activeSection, userHasSelectedSection, remote, uncaught>>

EditField(e) ==
    /\ mounted /\ pagePc = "ready"
    /\ edits < MaxEdits
    /\ Unlocked(e[1])
    /\ config' = updateStepInput(config, e[1], e[2], e[3])
    /\ edits' = edits + 1
    /\ op' = [name |-> "updateStepInput", step |-> e[1], field |-> e[2], value |-> e[3]]
    /\ UNCHANGED <<pageVars, testVars, rt, activeSection, userHasSelectedSection, remote, uncaught>>

(***************************************************************************)
(* page.tsx: handleSaveWorkflow.  currentConfig follows config through the *)
(* onConfigChange effect.                                                  *)
(***************************************************************************)
currentConfig == IF mounted THEN config ELSE Null

HasSuiteConfigResponse == suiteConfig # Null

\* suiteConfig?.workflow_config
HasStoredConfig == InitialConfigProp(suiteConfig) # Null

HandleSaveWorkflowWhenTested ==
    /\ pagePc = "ready" /\ suite # Null /\ ~isLoading
    /\ ~isSaving
    /\ inflight = {} /\ testedSteps # {}
    /\ Len(saveRequests) < MaxSaves
    /\ currentConfig # Null
    /\ isSaving' = TRUE
    /\ saveRequests' =
           Append(saveRequests,
                  [method |-> IF HasStoredConfig THEN "PUT" ELSE "POST",
                   body |-> [workflow_config |-> currentConfig],
                   status |-> "inflight"])
    /\ UNCHANGED <<pagePc, isLoading, suite, suiteConfig, pageToast, mounted,
                   configFetch, config, testVars, edits, rt, activeSection, userHasSelectedSection, remote, op, uncaught>>

HandleSaveWorkflowWhileSaving ==
    /\ pagePc = "ready" /\ suite # Null /\ ~isLoading
    /\ Len(saveRequests) < MaxSaves
    /\ currentConfig # Null
    /\ isSaving' = TRUE
    /\ saveRequests' =
           Append(saveRequests,
                  [method |-> IF HasStoredConfig THEN "PUT" ELSE "POST",
                   body |-> [workflow_config |-> currentConfig],
                   status |-> "inflight"])
    /\ UNCHANGED <<pagePc, isLoading, suite, suiteConfig, pageToast, mounted,
                   configFetch, config, testVars, edits, rt, activeSection, userHasSelectedSection, remote, op, uncaught>>

\* the Save Configuration button: disabled={isSaving}
HandleSaveWorkflow ==
    /\ pagePc = "ready" /\ suite # Null /\ ~isLoading
    /\ ~isSaving
    /\ Len(saveRequests) < MaxSaves
    /\ currentConfig # Null
    /\ isSaving' = TRUE
    /\ saveRequests' =
           Append(saveRequests,
                  [method |-> IF HasStoredConfig THEN "PUT" ELSE "POST",
                   body |-> [workflow_config |-> currentConfig],
                   status |-> "inflight"])
    /\ UNCHANGED <<pagePc, isLoading, suite, suiteConfig, pageToast, mounted,
                   configFetch, config, testVars, edits, rt, activeSection, userHasSelectedSection, remote, op, uncaught>>

SaveInFlight ==
    Len(saveRequests) > 0 /\ saveRequests[Len(saveRequests)].status = "inflight"

\* the save request resolves: router.push to the suite page
SaveResolves ==
    /\ pagePc = "ready" /\ SaveInFlight
    /\ saveRequests' = [saveRequests EXCEPT ![Len(saveRequests)].status = "success"]
    /\ pageToast' = [level |-> "success",
                     text |-> "Workflow configuration saved successfully"]
    /\ isSaving' = FALSE
    /\ pagePc' = "left"
    /\ remote' = RemoteSave(remote, saveRequests[Len(saveRequests)].body)
    /\ UNCHANGED <<isLoading, suite, suiteConfig, mounted, configFetch, config, testVars,
                   edits, rt, activeSection, userHasSelectedSection, op, uncaught>>

\* the promise of handleSaveWorkflow: its catch handles the rejection of the save
\* request and throws nothing
handleSaveWorkflowPromise(apiError) == "fulfilled"

SaveRejectsStillSaving ==
    /\ pagePc = "ready" /\ SaveInFlight
    /\ saveRequests' = [saveRequests EXCEPT ![Len(saveRequests)].status = "failure"]
    /\ pageToast' = [level |-> "error", text |-> "Failed to save workflow configuration"]
    /\ UNCHANGED <<pagePc, isLoading, suite, suiteConfig, mounted, configFetch, config,
                   testVars, edits, rt, activeSection, userHasSelectedSection, remote, op, uncaught, isSaving>>

\* the save request rejects: the catch and the finally of handleSaveWorkflow
SaveRejects ==
    /\ pagePc = "ready" /\ SaveInFlight
    /\ saveRequests' = [saveRequests EXCEPT ![Len(saveRequests)].status = "failure"]
    /\ pageToast' = [level |-> "error", text |-> "Failed to save workflow configuration"]
    /\ isSaving' = FALSE
    /\ \E e \in RemoteErrors :
           LET apiError == responseInterceptor(e) IN
           uncaught' = uncaught \cup Uncaught("handleSaveWorkflow",
                                              handleSaveWorkflowPromise(apiError),
                                              pageToast', apiError)
    /\ UNCHANGED <<pagePc, isLoading, suite, suiteConfig, mounted, configFetch, config,
                   testVars, edits, rt, activeSection, userHasSelectedSection, remote, op>>

Next ==
    \/ GetSuiteResolves
    \/ GetSuiteRejects
    \/ GetSuiteConfigResolves
    \/ GetSuiteConfigRejects
    \/ \E step \in StepNames : HandleTestStepClick(step)
    \/ TestAllStepsCall
    \/ TestRequestResolves
    \/ TestRequestRejects
    \/ \E e \in FieldEdits : EditField(e)
    \/ HandleSaveWorkflow
    \/ SaveResolves
    \/ SaveRejects

Spec == Init /\ [][Next]_vars

(***************************************************************************)
(* The editor open on a stored configuration, the first n steps having     *)
(* passed one test each: the state the page is in after the load and n     *)
(* clicks on Test, each answered.                                          *)
(***************************************************************************)
TestedThrough(n) ==
    /\ testResults = [s \in {Steps[i] : i \in 1..n} |-> Payload(StepIndex(s))]
    /\ testLoading = [s \in {Steps[i] : i \in 1..n} |-> FALSE]
    /\ testErrors = [s \in {Steps[i] : i \in 1..n} |-> NullStr]
    /\ currentTestResult =
           [stepType |-> Steps[n], result |-> Payload(n), error |-> NullStr]
    /\ testedSteps = {Steps[i] : i \in 1..n}
    /\ testToast = [level |-> "success", text |-> "test completed successfully",
                    step |-> Steps[n]]
    /\ inflight = {}
    /\ issued = n
    /\ run = NoRun
    /\ lastOutcome = [s \in {Steps[i] : i \in 1..n} |-> "success"]
    /\ lastError = Null
    /\ succeeded = {Steps[i] : i \in 1..n}

EditorOpen(c) ==
    /\ pagePc = "ready"
    /\ isLoading = FALSE
    /\ suite = SuiteFull
    /\ suiteConfig = [suite_id |-> "S1", workflow_config |-> c]
    /\ isSaving = FALSE
    /\ saveRequests = <<>>
    /\ pageToast = NoToast
    /\ mounted = TRUE
    /\ config = c
    /\ configFetch = [status |-> "resolved",
                      response |-> [suite_id |-> "S1", workflow_config |-> c]]
    /\ edits = 0
    /\ op = NoOp
    /\ uncaught = {}
    /\ rt = RtIdle
    /\ remote = <<c>>
    /\ activeSection = getInitialActiveSection(c.workflow.steps.invocation.input)
    /\ userHasSelectedSection = FALSE

(***************************************************************************)
(* workflow-configuration.tsx: calls of updateStepInput for every step,    *)
(* with a text or with a list as the value (lines 453-455, 741, 872, 922,  *)
(* and the invocation branch of lines 407-427).                            *)
(***************************************************************************)
\* (step, field, value) with a text value
TextEdits ==
    {<<"preprocessing", "groundtruth_column", "category">>,
     <<"preprocessing", "groundtruth_column", "">>,
     <<"invocation", "url", "https://api.example.com/v2">>,
     <<"invocation", "method", "PUT">>,
     <<"postprocessing", "field", "result[0].text">>,
     <<"postprocessing", "separator", ",">>}

\* (step, field, value) with a list value
ListEdits ==
    {<<"preprocessing", "input_columns", <<"review_text", "title">> >>,
     <<"preprocessing", "input_columns", <<>> >>,
     <<"invocation", "headers", <<KV2>> >>,
     <<"evaluation", "metrics", <<"recall">> >>}

\* updateStepInput(stepName, inputField, value): setConfig with the updater
UpdateStepInput(e) ==
    /\ mounted /\ pagePc = "ready"
    /\ edits < MaxOps
    /\ config' = updateStepInput(config, e[1], e[2], e[3])
    /\ edits' = edits + 1
    /\ op' = [name |-> "updateStepInput", step |-> e[1], field |-> e[2], value |-> e[3]]
    /\ UNCHANGED <<pageVars, testVars, rt, activeSection, userHasSelectedSection, remote, uncaught>>

\* a stored configuration whose steps have empty descriptions and scripts
WithBlankTexts(c) ==
    [c EXCEPT !.workflow.steps =
        [s \in StepNames |->
            [description |-> "", script |-> "", input |-> c.workflow.steps[s].input]]]

StartConfigs == {SavedConfig, WithBlankTexts(SavedConfig)}

FieldInit == \E c \in StartConfigs : EditorOpen(c) /\ TestedThrough(3)

FieldNext ==
    \/ \E e \in TextEdits : UpdateStepInput(e)
    \/ \E e \in ListEdits : UpdateStepInput(e)

FieldSpec == FieldInit /\ [][FieldNext]_vars

(***************************************************************************)
(* metrics-selector.tsx: the catalog, addMetric and removeMetric, wired to *)
(* evaluation.input.metrics of the draft (workflow-configuration.tsx,      *)
(* lines 920-923).                                                         *)
(***************************************************************************)
PREDEFINED_METRICS ==
    <<"similarity", "accuracy", "precision", "recall", "relevancy", "hallucination",
      "coherence", "fluency", "semantic-similarity", "response-time">>

MetricIds == {PREDEFINED_METRICS[i] : i \in DOMAIN PREDEFINED_METRICS}

\* selectedMetrics.includes(metricId)
Includes(list, x) == \E i \in DOMAIN list : list[i] = x

\* config.workflow.steps.evaluation.input.metrics
selectedMetrics == config.workflow.steps.evaluation.input.metrics

addMetricPrepends(sel, metricId) ==
    IF ~Includes(sel, metricId) THEN <<metricId>> \o sel ELSE sel

addMetricAlwaysAppends(sel, metricId) == Append(sel, metricId)

\* the list addMetric leaves selected: [...selectedMetrics, metricId] when the
\* metric is not included, and no call of onMetricsChange otherwise
addMetric(sel, metricId) ==
    IF ~Includes(sel, metricId) THEN Append(sel, metricId) ELSE sel

\* selectedMetrics.filter(id => id !== metricId)
removeMetric(sel, metricId) == SelectSeq(sel, LAMBDA id : id # metricId)

\* onSelect={() => addMetric(metric.id)}
AddMetric(m) ==
    /\ mounted /\ pagePc = "ready"
    /\ Unlocked("evaluation")
    /\ edits < MaxOps
    /\ LET metrics == addMetric(selectedMetrics, m) IN
       config' = IF metrics = selectedMetrics
                 THEN config
                 ELSE updateStepInput(config, "evaluation", "metrics", metrics)
    /\ edits' = edits + 1
    /\ op' = [name |-> "addMetric", metric |-> m]
    /\ UNCHANGED <<pageVars, testVars, rt, activeSection, userHasSelectedSection, remote, uncaught>>

\* onClick={() => removeMetric(metricId)}
RemoveMetric(m) ==
    /\ mounted /\ pagePc = "ready"
    /\ Unlocked("evaluation")
    /\ edits < MaxOps
    /\ config' = updateStepInput(config, "evaluation", "metrics",
                                 removeMetric(selectedMetrics, m))
    /\ edits' = edits + 1
    /\ op' = [name |-> "removeMetric", metric |-> m]
    /\ UNCHANGED <<pageVars, testVars, rt, activeSection, userHasSelectedSection, remote, uncaught>>

\* a stored configuration whose metrics list is the given one
WithMetrics(c, list) == [c EXCEPT !.workflow.steps.evaluation.input.metrics = list]

\* the metrics lists the editor is opened on
StartMetrics == {<<>>, <<"similarity">>, <<"accuracy", "similarity">>}

MetricsInit ==
    \E list \in StartMetrics :
        EditorOpen(WithMetrics(SavedConfig, list)) /\ TestedThrough(3)

MetricsNext ==
    \/ \E m \in MetricIds : AddMetric(m)
    \/ \E m \in MetricIds : RemoveMetric(m)

MetricsSpec == MetricsInit /\ [][MetricsNext]_vars

(***************************************************************************)
(* Saving and loading over several visits of the page: after a save the    *)
(* page is left, and opening it again mounts it anew and loads what the    *)
(* backend holds by then.                                                  *)
(***************************************************************************)
\* a new mount of the page and, after the load, of the editor: every useState starts
\* from its initial value again and the requests of the old mount are answered to
\* nobody; what the backend holds and the histories over all visits stay
NewMount ==
    /\ pagePc' = "getSuite"
    /\ isLoading' = TRUE
    /\ suite' = Null
    /\ suiteConfig' = Null
    /\ isSaving' = FALSE
    /\ saveRequests' = <<>>
    /\ pageToast' = NoToast
    /\ mounted' = FALSE
    /\ config' = Null
    /\ configFetch' = [status |-> "pending"]
    /\ activeSection' = "params"
    /\ userHasSelectedSection' = FALSE
    /\ testResults' = Empty
    /\ testLoading' = Empty
    /\ testErrors' = Empty
    /\ currentTestResult' = Null
    /\ testedSteps' = InitialTestedSteps
    /\ testToast' = NoToast
    /\ inflight' = {}
    /\ issued' = 0
    /\ run' = NoRun
    /\ lastOutcome' = Empty
    /\ lastError' = Null
    /\ UNCHANGED <<succeeded, edits, rt, remote, op, uncaught>>

\* the page is opened again after the save that left it
Revisit ==
    /\ pagePc = "left"
    /\ CurrentVersion(remote) < MaxVersions
    /\ NewMount

\* the browser reloads the page
Reload ==
    /\ pagePc # "left"
    /\ NewMount

VersionNext ==
    \/ GetSuiteResolves
    \/ GetSuiteRejects
    \/ GetSuiteConfigResolves
    \/ GetSuiteConfigRejects
    \/ HandleSaveWorkflow
    \/ SaveResolves
    \/ SaveRejects
    \/ Revisit

VersionSpec == Init /\ [][VersionNext]_vars

(***************************************************************************)
(* Testing alone, every test request being answered in the end: the remote *)
(* call of handleTestStep is awaited until it resolves or rejects.         *)
(***************************************************************************)
TestingNext ==
    \/ GetSuiteResolves
    \/ GetSuiteRejects
    \/ GetSuiteConfigResolves
    \/ GetSuiteConfigRejects
    \/ \E step \in StepNames : HandleTestStepClick(step)
    \/ TestAllStepsCall
    \/ TestRequestResolves
    \/ TestRequestRejects

TestingSpec ==
    /\ Init
    /\ [][TestingNext]_vars
    /\ WF_vars(TestRequestResolves \/ TestRequestRejects)

(***************************************************************************)
(* Testing over several sessions of the editor: loads, single-step tests   *)
(* and reloads of the page.                                                *)
(***************************************************************************)
SessionNext ==
    \/ GetSuiteResolves
    \/ GetSuiteRejects
    \/ GetSuiteConfigResolves
    \/ GetSuiteConfigRejects
    \/ \E step \in StepNames : HandleTestStepClick(step)
    \/ TestRequestResolves
    \/ TestRequestRejects
    \/ HandleSaveWorkflow
    \/ SaveResolves
    \/ Revisit
    \/ Reload

SessionSpec == Init /\ [][SessionNext]_vars

(***************************************************************************)
(* invocation-config.tsx: the invocation editor.  It is given the input of *)
(* the invocation step, edits its projection to the flat shape, and hands  *)
(* every result to onChange, which stores it as the input of the step      *)
(* (workflow-configuration.tsx 804-821).  Positions in a list count from 1 *)
(* here and from 0 in the source.                                          *)
(***************************************************************************)
\* the config prop of the editor
invocationInput == config.workflow.steps.invocation.input

legacyConfig == convertToLegacyFormat(invocationInput)

\* updateConfig(updates): the InvocationInput handed to onChange
updateConfig(updates) == convertFromLegacyFormat(updates @@ legacyConfig, invocationInput)

\* listType: 'params' | 'formData' | 'json'
ListTypes == {"params", "formData", "json"}

\* currentList of updateKeyValueList, addKeyValuePair and removeKeyValuePair
currentList(listType) ==
    IF listType = "formData" THEN legacyConfig.body.formData
    ELSE IF listType = "json" THEN legacyConfig.body.json
    ELSE legacyConfig.params

\* the updates the three list operations pass to updateConfig
ListUpdates(listType, newList) ==
    IF listType = "formData" THEN [body |-> [legacyConfig.body EXCEPT !.formData = newList]]
    ELSE IF listType = "json" THEN [body |-> [legacyConfig.body EXCEPT !.json = newList]]
    ELSE [params |-> newList]

\* the table of a list is rendered: params in the params section, json and
\* formData in the body section under the body type of that name
Rendered(listType) ==
    IF listType = "params" THEN activeSection = "params"
    ELSE activeSection = "body" /\ legacyConfig.bodyType = listType

\* onChange(newConfig), and the effect that follows a change of the config prop
Emit(newConfig, operation) ==
    /\ mounted /\ pagePc = "ready"
    /\ edits < MaxOps
    /\ config' = [config EXCEPT !.workflow.steps.invocation.input = newConfig]
    /\ edits' = edits + 1
    /\ op' = operation
    /\ UNCHANGED <<pageVars, testVars, rt, remote, uncaught>>

\* the effect of lines 107-112 after the config prop became newConfig
FollowConfig(newConfig) ==
    /\ activeSection' = IF userHasSelectedSection
                        THEN activeSection
                        ELSE getInitialActiveSection(newConfig)
    /\ UNCHANGED userHasSelectedSection

\* the url field
UpdateUrl(url) ==
    LET newConfig == updateConfig([url |-> url]) IN
    /\ Emit(newConfig, [name |-> "updateConfig", field |-> "url"])
    /\ FollowConfig(newConfig)

\* the method selector
UpdateMethod(method) ==
    LET newConfig == updateConfig([method |-> method]) IN
    /\ Emit(newConfig, [name |-> "updateConfig", field |-> "method"])
    /\ FollowConfig(newConfig)

\* the Configuration Section selector
SelectSection(value) ==
    /\ mounted /\ pagePc = "ready"
    /\ activeSection' = value
    /\ userHasSelectedSection' = TRUE
    /\ UNCHANGED <<pageVars, config, testVars, edits, rt, remote, op, uncaught>>

handleBodyTypeChangeCarryingList(newBodyType) ==
    LET shown == IF legacyConfig.bodyType = "formData"
                 THEN legacyConfig.body.formData ELSE legacyConfig.body.json
        updatedLegacyConfig ==
            [legacyConfig EXCEPT
                !.bodyType = newBodyType,
                !.body = [json |-> IF newBodyType = "json" THEN shown ELSE <<>>,
                          formData |-> IF newBodyType = "formData" THEN shown ELSE <<>>]]
    IN  convertFromLegacyFormat(updatedLegacyConfig, invocationInput)

handleBodyTypeChange(newBodyType) ==
    LET updatedLegacyConfig ==
            [legacyConfig EXCEPT
                !.bodyType = newBodyType,
                !.body = [json |-> IF newBodyType = "json"
                                   THEN legacyConfig.body.json ELSE <<>>,
                          formData |-> IF newBodyType = "formData"
                                       THEN legacyConfig.body.formData ELSE <<>>]]
    IN  convertFromLegacyFormat(updatedLegacyConfig, invocationInput)

\* the Body Type selector, shown in the body section
HandleBodyTypeChange(newBodyType) ==
    /\ activeSection = "body"
    /\ Emit(handleBodyTypeChange(newBodyType),
            [name |-> "handleBodyTypeChange", bodyType |-> newBodyType])
    /\ activeSection' = "body"
    /\ userHasSelectedSection' = TRUE

\* the checkbox, the key field and the value field of a row
UpdateKeyValueList(listType, index, field, value) ==
    LET list == currentList(listType)
        newList == [list EXCEPT ![index] = [list[index] EXCEPT ![field] = value]]
        newConfig == updateConfig(ListUpdates(listType, newList))
    IN  /\ Rendered(listType)
        /\ index \in DOMAIN list
        /\ Emit(newConfig, [name |-> "updateKeyValueList", listType |-> listType])
        /\ FollowConfig(newConfig)

\* the Add button of a table
AddKeyValuePair(listType) ==
    LET list == currentList(listType)
        newConfig == updateConfig(ListUpdates(listType, Append(list, defaultKeyValuePair)))
    IN  /\ Rendered(listType)
        /\ Len(list) < MaxLen
        /\ Emit(newConfig, [name |-> "addKeyValuePair", listType |-> listType])
        /\ FollowConfig(newConfig)

\* currentList.filter((_, i) => i !== index)
Without(list, index) ==
    [i \in 1..(Len(list) - 1) |-> IF i < index THEN list[i] ELSE list[i + 1]]

\* the Trash button of a row
RemoveKeyValuePair(listType, index) ==
    LET list == currentList(listType)
        newConfig == updateConfig(ListUpdates(listType, Without(list, index)))
    IN  /\ Rendered(listType)
        /\ index \in DOMAIN list
        /\ Emit(newConfig, [name |-> "removeKeyValuePair", listType |-> listType])
        /\ FollowConfig(newConfig)

\* the input_type values the editor starts from: every shape of params and body,
\* a body with both keys included
StartInputTypes ==
    {p @@ b : p \in {Empty, [params |-> [data |-> <<KV1>>]]},
              b \in {Empty, [body |-> Empty],
                     [body |-> [json |-> <<>>]], [body |-> [json |-> <<KV1>>]],
                     [body |-> [form |-> <<>>]], [body |-> [form |-> <<KV2>>]],
                     [body |-> [json |-> <<KV1>>, form |-> <<KV2>>]]}}

StartInputs ==
    {c \in InvocationInputs :
        c.url # "" /\ c.method = "POST" /\ c.input_type \in StartInputTypes}

InvocationInit ==
    \E c \in StartInputs :
        /\ EditorOpen([SavedConfig EXCEPT !.workflow.steps.invocation.input = c])
        /\ TestedThrough(1)

InvocationNext ==
    \/ \E url \in Urls : UpdateUrl(url)
    \/ \E method \in Methods : UpdateMethod(method)
    \/ \E value \in {"params", "body"} : SelectSection(value)
    \/ \E newBodyType \in {"none", "json", "formData"} : HandleBodyTypeChange(newBodyType)
    \/ \E listType \in ListTypes, index \in 1..MaxLen, field \in {"key", "value"} :
           UpdateKeyValueList(listType, index, field, "@[title]")
    \/ \E listType \in ListTypes, index \in 1..MaxLen, checked \in BOOLEAN :
           UpdateKeyValueList(listType, index, "enabled", checked)
    \/ \E listType \in ListTypes : AddKeyValuePair(listType)
    \/ \E listType \in ListTypes, index \in 1..MaxLen : RemoveKeyValuePair(listType, index)

InvocationSpec == InvocationInit /\ [][InvocationNext]_vars

(***************************************************************************)
(* The url field of the invocation editor and the Test button of the       *)
(* invocation panel.                                                       *)
(***************************************************************************)
UrlNext ==
    \/ \E url \in Urls : UpdateUrl(url)
    \/ HandleTestStepClick("invocation")
    \/ TestRequestResolves
    \/ TestRequestRejects

UrlSpec == InvocationInit /\ [][UrlNext]_vars

(***************************************************************************)
(* The round trip of the projection, over every InvocationInput of the     *)
(* bounded set.                                                            *)
(***************************************************************************)
RtInit ==
    /\ InitEditor
    /\ remote = <<>>
    /\ rt \in {[pc |-> "input", in |-> c] : c \in InvocationInputs}

RtNext == Project \/ Unproject

RtSpec == RtInit /\ [][RtNext]_vars

(***************************************************************************)
(* Properties.                                                             *)
(***************************************************************************)
Later == {i \in DOMAIN Steps : i > 1}

\* C1, as stated: the controls of step k+1 are enabled only if the most recently
\* completed test of step k ended in success.
C1_GatedByLatestTest ==
    mounted =>
        \A i \in Later :
            Unlocked(Steps[i]) =>
                /\ Has(lastOutcome, Steps[i - 1])
                /\ lastOutcome[Steps[i - 1]] = "success"

\* C1, amended: the controls of step k+1 are enabled only if some test of step k has
\* ended in success in this session; a later failed test of step k does not lock
\* step k+1 again.
C1_GatedByPassedTest ==
    mounted => \A i \in Later : Unlocked(Steps[i]) => Steps[i - 1] \in succeeded

\* invocation is unlocked, preprocessing having passed a test and then failed one
C1_Witness ==
    /\ mounted
    /\ Unlocked("invocation")
    /\ "preprocessing" \in succeeded
    /\ lastOutcome["preprocessing"] = "failure"

\* C2: in a testAllSteps run, once the test of a stage has failed no request for a
\* later stage is issued and the promise of testAllSteps is rejected.
C2_TestAllStepsAborts ==
    (run.status # "none" /\ run.failed # {}) =>
        /\ run.status = "rejected"
        /\ \A f \in run.failed : run.idx <= f

\* C3: a step is unlocked only if every step before it in the pipeline has passed a
\* test in this session.
C3_UnlockedNeedsAllEarlier ==
    mounted =>
        \A i \in Later :
            Unlocked(Steps[i]) => \A j \in 1..(i - 1) : Steps[j] \in succeeded

\* C4: projecting an InvocationInput with at most one of body.json and body.form,
\* and any params, to the flat shape and back gives the input again, with no body
\* key when the body type is none.
C4_RoundTrip ==
    (rt.pc = "rebuilt" /\ OneBody(rt.in)) =>
        /\ rt.out = rt.in
        /\ (rt.legacy.bodyType = "none" => ~Has(rt.out.input_type, "body"))

\* C5: a step that is in testedSteps stays in testedSteps in every later state.
C5_TestedStepsMonotonic == [][testedSteps \subseteq testedSteps']_vars

\* a step is in testedSteps although its latest test failed, a save having failed too
C5_Witness ==
    \E s \in testedSteps :
        /\ lastOutcome[s] = "failure"
        /\ Len(saveRequests) > 0

\* C6: when the remote call of a test of step s resolves with payload p, then
\* testResults[s] = p, s is in testedSteps, the displayed result is (s, p, no error)
\* and testLoading[s] is false.
C6_SuccessStoresResult ==
    [][\A r \in inflight :
          (r \notin inflight' /\ lastOutcome'[r.step] = "success") =>
              /\ testResults'[r.step] = Payload(r.id)
              /\ r.step \in testedSteps'
              /\ currentTestResult' =
                     [stepType |-> r.step, result |-> Payload(r.id), error |-> NullStr]
              /\ testLoading'[r.step] = FALSE]_vars

\* a test of invocation has resolved and its result is the one displayed
C6_Witness ==
    /\ "invocation" \in testedSteps
    /\ Has(testResults, "invocation")
    /\ currentTestResult # Null
    /\ currentTestResult.stepType = "invocation"
    /\ currentTestResult.error = NullStr
    /\ testLoading["invocation"] = FALSE

\* the message C7 asks for: the detail of the error payload, and the raw error's
\* message only when there is no detail
DetailOrMessage(error) ==
    IF Truthy(ResponseDetail(error)) THEN ResponseDetail(error) ELSE Message(error)

\* C7: when the remote call of a test of step s rejects, the stored error message of
\* the step, and the error of the displayed result, is the detail of the error
\* payload, or the raw error's message when there is no detail.
C7_ErrorIsDetail ==
    (currentTestResult # Null /\ currentTestResult.error # NullStr) =>
        /\ currentTestResult.error = DetailOrMessage(lastError)
        /\ testErrors[currentTestResult.stepType]
               \in {NullStr, DetailOrMessage(lastError)}

\* the suite the editor was given carries no identifier
SuiteWithoutId == ~Truthy(Field(suite, "id"))

\* C8: without a suite identifier no test request is issued and the test state is
\* left as it was.
C8_NoSuiteNoTest ==
    (mounted /\ SuiteWithoutId) =>
        /\ issued = 0
        /\ inflight = {}
        /\ testLoading = Empty
        /\ testErrors = Empty
        /\ testResults = Empty
        /\ testedSteps = {}
        /\ currentTestResult = Null
        /\ run = NoRun

\* a test was asked for without a suite identifier
C8_Witness == mounted /\ SuiteWithoutId /\ testToast = NoSuiteToast

\* C9: with no prior configuration the initial draft has version 0 and all four
\* steps, with their empty defaults; this also with a suite without name or
\* description.
C9_DefaultDraft ==
    (mounted /\ InitialConfigProp(suiteConfig) = Null /\ edits = 0) =>
        /\ config # Null
        /\ config.workflow.version = 0
        /\ DOMAIN config.workflow.steps = StepNames
        /\ \A s \in StepNames : config.workflow.steps[s] # Null
        /\ config.workflow.steps.preprocessing.input.input_columns = <<>>
        /\ config.workflow.steps.preprocessing.input.groundtruth_column = ""
        /\ config.workflow.steps.invocation.input.method = "POST"
        /\ config.workflow.steps.invocation.input.headers = <<>>
        /\ config.workflow.steps.evaluation.input.metrics = <<"similarity">>

\* the editor is open on a suite without name and description, nothing stored
C9_Witness ==
    /\ mounted
    /\ InitialConfigProp(suiteConfig) = Null
    /\ ~Truthy(Field(suite, "name"))
    /\ ~Truthy(Field(suite, "description"))
    /\ config.workflow.name = "New Workflow"

\* the configuration fetch of this session failed with status 404
ConfigNotFound == configFetch.status = "rejected" /\ configFetch.notFound

\* C10: when the configuration fetch fails with status 404 no load error is shown,
\* the loaded configuration is absent and the editor starts from the default draft.
C10_NotFoundIsNoConfig ==
    ConfigNotFound =>
        /\ pageToast # LoadFailedToast
        /\ ~isLoading
        /\ suiteConfig = Null
        /\ mounted
        /\ (edits = 0 => config = DefaultConfig(suite))

\* the editor is open after a 404 on the configuration
C10_Witness == ConfigNotFound /\ mounted /\ pageToast = NoToast /\ config.workflow.version = 0

\* the configuration fetch of this session failed with a status other than 404, or
\* without any response
ConfigLoadFailed == configFetch.status = "rejected" /\ ~configFetch.notFound

\* C11: when the configuration fetch fails other than with status 404, "Failed to
\* load suite data" is shown, loading has ended, and the editor is open on the
\* default draft.
C11_LoadFailureReported ==
    ConfigLoadFailed =>
        /\ saveRequests = <<>> => pageToast = LoadFailedToast
        /\ ~isLoading
        /\ mounted
        /\ suiteConfig = Null
        /\ (edits = 0 => config = DefaultConfig(suite))

\* the fetch failed other than with 404, the failure is on display and a test has
\* been started in the editor
C11_Witness ==
    /\ ConfigLoadFailed
    /\ pageToast = LoadFailedToast
    /\ mounted
    /\ config = DefaultConfig(suite)
    /\ issued > 0

\* the save requests issued by the step from the current state to the next
NewSaves == {i \in DOMAIN saveRequests' : i > Len(saveRequests)}

\* the load of this session returned a configuration with a workflow_config
StoredConfigLoaded ==
    /\ configFetch.status = "resolved"
    /\ configFetch.response.workflow_config # Null

SaveFails ==
    /\ SaveInFlight
    /\ Len(saveRequests') = Len(saveRequests)
    /\ saveRequests'[Len(saveRequests)].status = "failure"

SaveFailedToast == [level |-> "error", text |-> "Failed to save workflow configuration"]

\* C13: when the save request fails, "Failed to save workflow configuration" is
\* shown, the draft is the draft before the attempt, the editor stays on the page
\* with saving enabled again, and a save that follows a failed one sends the draft
\* again, which is the body of the failed request unless it was edited since.
C13_SaveFailureKeepsDraft ==
    [][/\ SaveFails =>
              /\ pageToast' = SaveFailedToast
              /\ config' = config
              /\ pagePc' = "ready"
              /\ mounted'
              /\ ~isSaving'
       /\ \A i \in NewSaves :
              (i > 1 /\ saveRequests[i - 1].status = "failure") =>
                  /\ saveRequests'[i].body = [workflow_config |-> config]
                  /\ (config = saveRequests[i - 1].body.workflow_config
                          => saveRequests'[i].body = saveRequests[i - 1].body)]_vars

\* an edited draft was saved, the save failed, and the second save sent it again
C13_Witness ==
    /\ Len(saveRequests) >= 2
    /\ saveRequests[1].status = "failure"
    /\ saveRequests[2].body = saveRequests[1].body
    /\ saveRequests[1].body.workflow_config.workflow.steps.postprocessing.input.field
           = "result[0].text"
    /\ ~StoredConfigLoaded

\* the version carried by the draft of the save request in flight
SentVersion == saveRequests[Len(saveRequests)].body.workflow_config.workflow.version

Occurrences(list, x) == Cardinality({i \in DOMAIN list : list[i] = x})

\* the step from the current state to the next applies addMetric(m)
Adds(m) == edits' = edits + 1 /\ op' = [name |-> "addMetric", metric |-> m]

\* the step from the current state to the next applies removeMetric(m)
Removes(m) == edits' = edits + 1 /\ op' = [name |-> "removeMetric", metric |-> m]

\* C15: addMetric(m) for a metric m that is in the metrics list leaves the list as it
\* is, with m in it once; addMetric(m) right after addMetric(m) changes nothing.
C15_AddMetricIdempotent ==
    [][\A m \in MetricIds :
          Adds(m) =>
              /\ Includes(selectedMetrics, m) =>
                     /\ selectedMetrics' = selectedMetrics
                     /\ Occurrences(selectedMetrics', m) = 1
              /\ op = [name |-> "addMetric", metric |-> m] =>
                     selectedMetrics' = selectedMetrics]_vars

\* a metric that was not in the list has been added twice in a row and is in the
\* list once
C15_Witness ==
    /\ op = [name |-> "addMetric", metric |-> "recall"]
    /\ edits >= 2
    /\ selectedMetrics = <<"similarity", "recall">>

\* the position of x in a list without duplicates
PositionIn(list, x) == CHOOSE i \in DOMAIN list : list[i] = x

\* C16: the metrics list never holds an identifier twice nor one that is not in the
\* catalog; addMetric of a metric not in the list appends it at the end; after
\* removeMetric(m) the list holds the other metrics, in the order they had, without m.
C16_MetricsStayASet ==
    [][/\ \A m \in MetricIds : Occurrences(selectedMetrics', m) <= 1
       /\ \A i \in DOMAIN selectedMetrics' : selectedMetrics'[i] \in MetricIds
       /\ \A m \in MetricIds :
              (Adds(m) /\ ~Includes(selectedMetrics, m)) =>
                  /\ Len(selectedMetrics') = Len(selectedMetrics) + 1
                  /\ selectedMetrics'[Len(selectedMetrics')] = m
                  /\ SubSeq(selectedMetrics', 1, Len(selectedMetrics)) = selectedMetrics
       /\ \A m \in MetricIds :
              Removes(m) =>
                  /\ ~Includes(selectedMetrics', m)
                  /\ \A x \in MetricIds \ {m} :
                         Includes(selectedMetrics', x) <=> Includes(selectedMetrics, x)
                  /\ \A x, y \in MetricIds :
                         (Includes(selectedMetrics', x) /\ Includes(selectedMetrics', y)) =>
                             (PositionIn(selectedMetrics', x) < PositionIn(selectedMetrics', y)
                                  <=> PositionIn(selectedMetrics, x)
                                          < PositionIn(selectedMetrics, y))]_vars

\* a metric was removed from the middle of a list of three
C16_Witness ==
    /\ op = [name |-> "removeMetric", metric |-> "similarity"]
    /\ selectedMetrics = <<"accuracy", "recall">>
    /\ edits = 2

\* the part of a step outside the input
StepTexts(c, s) == <<c.workflow.steps[s].description, c.workflow.steps[s].script>>

\* the part of a workflow outside the steps
WorkflowTexts(c) == <<c.workflow.name, c.workflow.description, c.workflow.version>>

\* C17: after updateStepInput(step, field, value) the field of the step's input is
\* the value; the other fields of that input, the step's description and script, the
\* other three steps and the workflow's name, description and version are as before.
C17_UpdateStepInputFrame ==
    [][(edits' = edits + 1 /\ op'.name = "updateStepInput") =>
          LET st == op'.step
              before == config.workflow.steps[st].input
              after == config'.workflow.steps[st].input
          IN  /\ after[op'.field] = op'.value
              /\ DOMAIN after = DOMAIN before \cup {op'.field}
              /\ \A g \in DOMAIN before \ {op'.field} : after[g] = before[g]
              /\ StepTexts(config', st) = StepTexts(config, st)
              /\ DOMAIN config'.workflow.steps = StepNames
              /\ \A other \in StepNames \ {st} :
                     config'.workflow.steps[other] = config.workflow.steps[other]
              /\ WorkflowTexts(config') = WorkflowTexts(config)]_vars

\* the method of the invocation step was replaced; its url, headers and input_type
\* are the stored ones
C17_Witness ==
    /\ op.name = "updateStepInput"
    /\ op.step = "invocation"
    /\ op.field = "method"
    /\ config.workflow.steps.invocation.input =
           [SavedConfig.workflow.steps.invocation.input EXCEPT !.method = "PUT"]
    /\ config.workflow.steps.invocation.description = ""

\* the order of the pipeline
PipelineOrder == <<"preprocessing", "invocation", "postprocessing", "evaluation">>

\* the requests in flight that a testAllSteps run is waiting for
Awaited(reqs) == {r \in reqs : r.awaited}

\* C18: a testAllSteps run issues its requests in the order preprocessing,
\* invocation, postprocessing, evaluation; the request of a stage is issued in the
\* step in which the request of the stage before it completes, and never are two
\* requests of the run in flight.
C18_TestAllStepsInOrder ==
    [][/\ Cardinality(Awaited(inflight')) <= 1
       /\ \A r \in Awaited(inflight') \ inflight :
              \/ /\ r.step = PipelineOrder[1]
                 /\ Awaited(inflight) = {}
                 /\ run.status # "running"
              \/ \E q \in Awaited(inflight) :
                     /\ q \notin inflight'
                     /\ \E i \in 1..3 : q.step = PipelineOrder[i]
                                         /\ r.step = PipelineOrder[i + 1]
       /\ \A r \in Awaited(inflight') :
              run'.status = "running" /\ r.step = PipelineOrder[run'.idx]]_vars

\* the run has had the answer for preprocessing and waits for invocation
C18_Witness ==
    /\ run.status = "running"
    /\ run.idx = 2
    /\ \E r \in inflight : r.awaited /\ r.step = "invocation"
    /\ "preprocessing" \in succeeded

\* C19, as stated: every failed test, load or save call ends in an error notification
\* of the operation that issued it, and the promise of no operation is rejected.
C19_EveryFailureNotified == uncaught = {} /\ run.status # "rejected"

\* C19, amended: the promise of no operation is rejected, and every failed test,
\* load or save call ends in an error notification of the operation that issued it,
\* except the configuration fetch that fails with status 404, which fetchSuiteData
\* takes without a notification.
C19_NoFailureEscapes ==
    /\ run.status # "rejected"
    /\ \A u \in uncaught :
           /\ u.how = "silent"
           /\ u.operation = "fetchSuiteData"
           /\ u.status_code = 404
           /\ ConfigNotFound

\* a load, a stage of a testAllSteps run and a save have failed in one session
C19_Witness ==
    /\ ConfigLoadFailed
    /\ run.status # "none"
    /\ run.failed # {}
    /\ Len(saveRequests) > 0
    /\ saveRequests[1].status = "failure"
    /\ uncaught = {}

\* C20: every InvocationInput the invocation editor hands to onChange, after any
\* sequence of url and method edits, additions, updates and removals of key/value
\* pairs and changes of the body type, from any starting input, has no body in its
\* input_type or a body with exactly one of the keys json and form.
C20_DiscriminatedBody ==
    edits > 0 =>
        LET it == config.workflow.steps.invocation.input.input_type IN
        \/ "body" \notin DOMAIN it
        \/ DOMAIN it.body = {"json"}
        \/ DOMAIN it.body = {"form"}

\* the body type was changed to form data after another emission, and the body
\* holds the form list alone
C20_Witness ==
    /\ edits > 1
    /\ op.name = "handleBodyTypeChange"
    /\ op.bodyType = "formData"
    /\ config.workflow.steps.invocation.input.input_type.body = [form |-> <<>>]

\* C21: the body of every update (PUT) request a save issues is an object that
\* carries the whole draft under the key configuration.
C21_UpdateBodyUnderConfiguration ==
    \A i \in DOMAIN saveRequests :
        saveRequests[i].method = "PUT" =>
            /\ "configuration" \in DOMAIN saveRequests[i].body
            /\ saveRequests[i].body.configuration = config

\* C22: at the start of every session of the editor, the first load or a reload,
\* testedSteps is empty and invocation, postprocessing and evaluation are locked,
\* whatever configuration was loaded and whatever tests passed in earlier sessions.
C22_TestedStateNotPersisted ==
    [][(~mounted /\ mounted') =>
          /\ testedSteps' = {}
          /\ \A i \in Later : Steps[i - 1] \notin testedSteps']_vars

\* the editor has just been mounted on a stored configuration, nothing tested, in a
\* session that follows one in which a test passed
C22_Witness ==
    /\ mounted
    /\ issued = 0
    /\ testedSteps = {}
    /\ "preprocessing" \in succeeded
    /\ configFetch.status = "resolved"
    /\ suiteConfig.workflow_config # Null

\* C23: a test request for invocation, postprocessing or evaluation is issued, by a
\* click on Test or inside a testAllSteps run, only when the step before it is in
\* testedSteps at the moment of issue.
C23_RequestsFollowPassedSteps ==
    [][\A r \in inflight' \ inflight :
          StepIndex(r.step) > 1 => Steps[StepIndex(r.step) - 1] \in testedSteps']_vars

\* C24: the start of a test, its success and its failure, by a click on Test or
\* inside a testAllSteps run, leave the draft as it was.
C24_TestingKeepsDraft ==
    [][(inflight' # inflight \/ testLoading' # testLoading \/ lastOutcome' # lastOutcome)
          => config' = config]_vars

\* preprocessing was tested twice by its button and failed both times, the draft
\* being the one the editor started with
C24_Witness ==
    /\ issued = 2
    /\ inflight = {}
    /\ run = NoRun
    /\ succeeded = {}
    /\ lastOutcome["preprocessing"] = "failure"
    /\ config = InitialDraft(InitialConfigProp(suiteConfig), suite)

\* C25: every test that is running (testLoading[step] true) stops running, once its
\* remote call resolves or rejects, with testLoading[step] false and exactly one of a
\* result and an error stored for the run; no step takes a request away unanswered.
C25_RunningTestsEnd ==
    /\ \A s \in StepNames :
           (s \in DOMAIN testLoading /\ testLoading[s])
               ~> (s \in DOMAIN testLoading /\ ~testLoading[s])
    /\ [][\A r \in inflight \ inflight' :
             /\ testLoading'[r.step] = FALSE
             /\ currentTestResult'.stepType = r.step
             /\ (currentTestResult'.result = Null) # (currentTestResult'.error = NullStr)
             /\ \/ /\ currentTestResult'.result = Payload(r.id)
                   /\ testResults'[r.step] = Payload(r.id)
                \/ /\ currentTestResult'.error # NullStr
                   /\ testErrors'[r.step] = currentTestResult'.error]_vars

\* a test of preprocessing has ended in an error and none is running
C25_Witness ==
    /\ inflight = {}
    /\ issued > 0
    /\ testLoading["preprocessing"] = FALSE
    /\ testErrors["preprocessing"] # NullStr
    /\ "preprocessing" \notin DOMAIN testResults

\* C26, as stated: of two tests of one step that run at the same time, the one
\* triggered second gives the stored result whatever the order of the answers: the
\* result stored for a step is never replaced by that of a test triggered earlier.
C26_SecondTriggeredWins ==
    [][\A s \in DOMAIN testResults :
          testResults'[s].request >= testResults[s].request]_vars

\* C26, amended: of two tests of one step that run at the same time, the one whose
\* answer arrives last gives the stored TestRun: when the answer of a test arrives
\* while the other is in flight or after the other has stored its result, what is
\* stored and displayed for the step is the outcome of the test just answered.
C26_LastAnswerWins ==
    [][\A r \in inflight \ inflight' :
          (\/ \E r2 \in inflight : r2 # r /\ r2.step = r.step
           \/ (r.step \in DOMAIN testResults /\ testResults[r.step].request > r.id))
          => /\ currentTestResult'.stepType = r.step
             /\ IF lastOutcome'[r.step] = "success"
                THEN /\ testResults'[r.step] = [success |-> TRUE, request |-> r.id]
                     /\ currentTestResult'.result = testResults'[r.step]
                ELSE /\ testErrors'[r.step] # NullStr
                     /\ currentTestResult'.error = testErrors'[r.step]
                     /\ currentTestResult'.result = Null]_vars

\* a click on Test of preprocessing (request 1) and then a testAllSteps run (request
\* 2) tested preprocessing at the same time; request 2 was answered first, and the
\* stored result is that of request 1
C26_Witness ==
    /\ run.status = "running"
    /\ \E r \in inflight : r.awaited /\ r.id = 3 /\ r.step = "invocation"
    /\ 1 \notin run.failed
    /\ "preprocessing" \in DOMAIN testResults
    /\ testResults["preprocessing"].request = 1
    /\ currentTestResult.result = testResults["preprocessing"]

TestStarts(s) ==
    \/ /\ s \in DOMAIN testLoading'
       /\ testLoading'[s]
       /\ ~(s \in DOMAIN testLoading /\ testLoading[s])
    \/ /\ testToast' # testToast
       /\ testToast' = [level |-> "info", text |-> "Testing step", step |-> s]

\* C28: every started test of a step sends exactly one test request for that step, a
\* request that failed is not sent again by the code, and so the number of requests
\* sent is the number of tests started.
C28_OneRequestPerTest ==
    /\ [][\A s \in StepNames :
             Cardinality({r \in inflight' \ inflight : r.step = s})
                 = IF TestStarts(s) THEN 1 ELSE 0]_vars
    /\ [][issued' - issued = Cardinality(inflight' \ inflight)]_vars
    /\ [][\A r \in inflight \ inflight' :
             lastOutcome'[r.step] = "failure" =>
                 \A n \in inflight' \ inflight : n.step # r.step]_vars

\* two tests of preprocessing were started by its button, both failed, and two
\* requests were sent in all
C28_Witness ==
    /\ issued = 2
    /\ inflight = {}
    /\ run = NoRun
    /\ testedSteps = {}
    /\ "preprocessing" \in DOMAIN testErrors
    /\ testErrors["preprocessing"] # NullStr

\* C29: a test request for the invocation step is issued only when the url of the
\* invocation input is not empty.
C29_NoInvocationTestWithoutUrl ==
    [][\A r \in inflight' \ inflight :
          r.step = "invocation" => config.workflow.steps.invocation.input.url # ""]_vars

\* C30: whenever a test of preprocessing is started or the configuration is saved,
\* the ground truth column of the preprocessing input is one of the columns of the
\* dataset.
C30_GroundTruthIsAColumn ==
    [][(\/ \E r \in inflight' \ inflight : r.step = "preprocessing"
        \/ Len(saveRequests') > Len(saveRequests))
          => config.workflow.steps.preprocessing.input.groundtruth_column
                 \in DatasetColumns]_vars

\* C31: for every step, testLoading[step] is true in every state in which a test
\* request for that step is in flight, also when a test by the button and a
\* testAllSteps run overlap on the step and one of the two is answered first.
C31_LoadingWhileInFlight ==
    \A r \in inflight : r.step \in DOMAIN testLoading /\ testLoading[r.step]

\* C32: for every step, whenever the test of the step that completed last succeeded,
\* testErrors[step] is null.
C32_NoErrorBesideNewerSuccess ==
    \A s \in DOMAIN lastOutcome :
        lastOutcome[s] = "success" => (s \in DOMAIN testErrors /\ testErrors[s] = NullStr)

\* C33: handleSaveWorkflow sends exactly one request for a save: an update (PUT) if
\* and only if the load of the session returned a workflow_config that is not null,
\* and a create (POST) after a load that gave 404, returned a null workflow_config,
\* or failed; without a draft no request is sent.
C33_OneRequestPerSave ==
    /\ [](\A i \in DOMAIN saveRequests :
             /\ saveRequests[i].method \in {"PUT", "POST"}
             /\ saveRequests[i].method = "PUT" <=>
                    (/\ configFetch.status = "resolved"
                     /\ configFetch.response.workflow_config # Null)
             /\ saveRequests[i].method = "POST" <=>
                    (\/ configFetch.status = "rejected"
                     \/ /\ configFetch.status = "resolved"
                        /\ configFetch.response.workflow_config = Null)
             /\ saveRequests[i].body.workflow_config # Null)
    /\ [][/\ Len(saveRequests') = Len(saveRequests) + (IF ~isSaving /\ isSaving' THEN 1 ELSE 0)
          /\ Len(saveRequests') > Len(saveRequests) => (mounted /\ config # Null)]_vars
    /\ [](~mounted => saveRequests = <<>>)

\* a draft was saved with POST after a load that failed with an error other than 404,
\* and with PUT in a session whose load returned a stored configuration
C33_Witness ==
    /\ Len(saveRequests) = 2
    /\ \/ /\ configFetch.status = "rejected"
          /\ ~configFetch.notFound
          /\ saveRequests[2].method = "POST"
       \/ /\ configFetch.status = "resolved"
          /\ configFetch.response.workflow_config # Null
          /\ saveRequests[2].method = "PUT"
    /\ saveRequests[1].status = "failure"
    /\ saveRequests[1].method = saveRequests[2].method

\* the save requests that wait for their answer
SavesInFlight == {i \in DOMAIN saveRequests : saveRequests[i].status = "inflight"}

\* C34: at most one save request is in flight at any time: the Save button is
\* disabled, isSaving being true, from the start of a save until its request resolves
\* or rejects, and isSaving is false again after either.
C34_OneSaveInFlight ==
    /\ [](/\ Cardinality(SavesInFlight) <= 1
          /\ isSaving <=> SavesInFlight # {}
          /\ isSaving => ~ENABLED HandleSaveWorkflow)
    /\ [][SavesInFlight' # SavesInFlight /\ SavesInFlight # {} => ~isSaving']_vars

\* a save failed, and the save started after it is in flight
C34_Witness ==
    /\ Len(saveRequests) = 2
    /\ saveRequests[1].status = "failure"
    /\ saveRequests[2].status = "inflight"
    /\ isSaving

\* C35: saving does not depend on the test state: in every state of the editor in
\* which no save is in flight a save can be started and sends the current draft,
\* also when testedSteps is empty, when the latest test of a step failed, and while
\* a test request is in flight; the save leaves the test state as it is.
C35_SaveIndependentOfTests ==
    /\ []((mounted /\ pagePc = "ready" /\ ~isSaving /\ Len(saveRequests) < MaxSaves)
              => ENABLED (/\ HandleSaveWorkflow
                          /\ saveRequests'[Len(saveRequests')].body.workflow_config = config))
    /\ [][Len(saveRequests') > Len(saveRequests) =>
             /\ saveRequests'[Len(saveRequests')].body.workflow_config = config
             /\ testedSteps' = testedSteps
             /\ inflight' = inflight
             /\ testLoading' = testLoading]_vars

\* a save is in flight, started while a test of preprocessing was in flight, the
\* test before it having failed and testedSteps being empty
C35_Witness ==
    /\ Len(saveRequests) > 0
    /\ saveRequests[Len(saveRequests)].status = "inflight"
    /\ \E r \in inflight : r.step = "preprocessing"
    /\ testedSteps = {}
    /\ "preprocessing" \in DOMAIN lastOutcome
    /\ lastOutcome["preprocessing"] = "failure"

\* the body type the editor shows for an InvocationInput: json when body.json is
\* there, else formData when body.form is there, else none
ShownBodyType(c) ==
    IF "body" \notin DOMAIN c.input_type THEN "none"
    ELSE IF "json" \in DOMAIN c.input_type.body THEN "json"
    ELSE IF "form" \in DOMAIN c.input_type.body THEN "formData"
    ELSE "none"

\* the list the editor shows under that body type
ShownBodyList(c) ==
    IF ShownBodyType(c) = "json" THEN c.input_type.body.json
    ELSE IF ShownBodyType(c) = "formData" THEN c.input_type.body.form
    ELSE <<>>

\* C36: handleBodyTypeChange(t) emits an input whose input_type.body holds exactly
\* the key of t (json for json, form for formData, no body for none); the list under
\* the key is the list before when the body type before was t and is empty
\* otherwise; url and method stay as they were.
C36_BodyTypeChange ==
    [][(edits' = edits + 1 /\ op'.name = "handleBodyTypeChange") =>
          LET old == config.workflow.steps.invocation.input
              new == config'.workflow.steps.invocation.input
              t == op'.bodyType
              list == IF ShownBodyType(old) = t THEN ShownBodyList(old) ELSE <<>>
          IN  /\ t = "none" => "body" \notin DOMAIN new.input_type
              /\ t = "json" => ("body" \in DOMAIN new.input_type
                                   /\ new.input_type.body = [json |-> list])
              /\ t = "formData" => ("body" \in DOMAIN new.input_type
                                       /\ new.input_type.body = [form |-> list])
              /\ new.url = old.url
              /\ new.method = old.method]_vars

\* the body type was changed three times, last to json, and the json list is empty
C36_Witness ==
    /\ edits = 3
    /\ op.name = "handleBodyTypeChange"
    /\ op.bodyType = "json"
    /\ config.workflow.steps.invocation.input.input_type.body = [json |-> <<>>]
    /\ userHasSelectedSection

\* C37: every emitted InvocationInput has input_type.params exactly when the list of
\* query parameters is not empty: removing the last parameter removes the key,
\* adding the first creates it with the one entry {key "", value "", enabled true};
\* an edit of the parameters leaves input_type.body as it was.
C37_ParamsPresentIffNonEmpty ==
    [][(edits' = edits + 1) =>
          LET old == config.workflow.steps.invocation.input.input_type
              new == config'.workflow.steps.invocation.input.input_type
              before == IF "params" \in DOMAIN old THEN old.params.data ELSE <<>>
              paramEdit == op'.name \in {"updateKeyValueList", "addKeyValuePair",
                                         "removeKeyValuePair"}
                              /\ op'.listType = "params"
          IN  /\ "params" \in DOMAIN new => Len(new.params.data) > 0
              /\ (op'.name = "removeKeyValuePair" /\ op'.listType = "params"
                     /\ Len(before) = 1) => "params" \notin DOMAIN new
              /\ (op'.name = "addKeyValuePair" /\ op'.listType = "params"
                     /\ Len(before) = 0) =>
                    ("params" \in DOMAIN new
                        /\ new.params.data =
                               <<[key |-> "", value |-> "", enabled |-> TRUE]>>)
              /\ paramEdit =>
                    /\ ("body" \in DOMAIN new) = ("body" \in DOMAIN old)
                    /\ "body" \in DOMAIN old => new.body = old.body]_vars

\* C37 (amended): every emitted InvocationInput has input_type.params exactly when
\* the list of query parameters is not empty (removing the last parameter removes
\* the key, adding the first creates it with the one default entry), and an edit
\* of the parameters leaves the body the editor shows: a body with one key stays as
\* it is, a body with json and form keeps json alone, a body with no key is dropped.
C37_ParamsEdits ==
    [][(edits' = edits + 1) =>
          LET old == config.workflow.steps.invocation.input
              new == config'.workflow.steps.invocation.input
              before == IF "params" \in DOMAIN old.input_type
                        THEN old.input_type.params.data ELSE <<>>
              paramEdit == op'.name \in {"updateKeyValueList", "addKeyValuePair",
                                         "removeKeyValuePair"}
                              /\ op'.listType = "params"
          IN  /\ "params" \in DOMAIN new.input_type => Len(new.input_type.params.data) > 0
              /\ (op'.name = "removeKeyValuePair" /\ op'.listType = "params"
                     /\ Len(before) = 1) => "params" \notin DOMAIN new.input_type
              /\ (op'.name = "addKeyValuePair" /\ op'.listType = "params"
                     /\ Len(before) = 0) =>
                    ("params" \in DOMAIN new.input_type
                        /\ new.input_type.params.data =
                               <<[key |-> "", value |-> "", enabled |-> TRUE]>>)
              /\ paramEdit =>
                    /\ ShownBodyType(new) = ShownBodyType(old)
                    /\ ShownBodyList(new) = ShownBodyList(old)
                    /\ ("body" \in DOMAIN new.input_type) = (ShownBodyType(old) # "none")
                    /\ "body" \in DOMAIN new.input_type =>
                          Cardinality(DOMAIN new.input_type.body) = 1
                    /\ ("body" \in DOMAIN old.input_type
                           /\ Cardinality(DOMAIN old.input_type.body) = 1) =>
                          ("body" \in DOMAIN new.input_type
                              /\ new.input_type.body = old.input_type.body)]_vars

\* the one parameter was added and then removed: no params key, the json body kept
C37_Witness ==
    /\ edits = 2
    /\ op = [name |-> "removeKeyValuePair", listType |-> "params"]
    /\ "params" \notin DOMAIN config.workflow.steps.invocation.input.input_type
    /\ "body" \in DOMAIN config.workflow.steps.invocation.input.input_type
    /\ config.workflow.steps.invocation.input.input_type.body = [json |-> <<KV1>>]

\* C38: every edit made through the invocation editor (url, method, entries of the
\* parameters and of the body, change of the body type) leaves
\* invocation.input.headers as it was, and leaves the description and script of the
\* invocation step and the three other steps unchanged.
C38_EditorFrame ==
    [][(edits' = edits + 1
           /\ op'.name \in {"updateConfig", "handleBodyTypeChange", "updateKeyValueList",
                            "addKeyValuePair", "removeKeyValuePair"}) =>
          LET old == config.workflow.steps
              new == config'.workflow.steps
          IN  /\ new.invocation.input.headers = old.invocation.input.headers
              /\ new.invocation.description = old.invocation.description
              /\ new.invocation.script = old.invocation.script
              /\ DOMAIN new.invocation = DOMAIN old.invocation
              /\ new.preprocessing = old.preprocessing
              /\ new.postprocessing = old.postprocessing
              /\ new.evaluation = old.evaluation]_vars

\* three edits were made, the last to an entry of the body, with a header stored
C38_Witness ==
    /\ edits = 3
    /\ op = [name |-> "updateKeyValueList", listType |-> "json"]
    /\ config.workflow.steps.invocation.input.headers = <<KV1>>
    /\ config.workflow.steps.invocation.description = "Request invocation"

====
